---- MODULE Spec2Model ----
(***************************************************************************)
(* Basis-set format conversion layer of bse-scratch: the Crystal, Molpro   *)
(* and Molpro-library readers and the Crystal and Molpro-library writers.  *)
(*                                                                         *)
(* Text is modelled at token level.  A line is a separator (blank or       *)
(* comma) and a sequence of tokens; a token is an unsigned/signed integer, *)
(* a floating-point literal (integer part, fraction digits, optional       *)
(* exponent with its marker E or D) or a word.  The regular expressions of *)
(* the readers become predicates over the tokens of a line.  Column        *)
(* padding, which is a function of the tokens alone, is not represented.   *)
(***************************************************************************)
EXTENDS Integers, Sequences, FiniteSets, TLC

VARIABLES pc, fmt, basis, basis_lines, err, bs_data, rewritten,
          module_func_type, calls, merge

vars == <<pc, fmt, basis, basis_lines, err, bs_data, rewritten,
          module_func_type, calls, merge>>

(***************************************************************************)
(* Bounds of the enumerated inputs.                                        *)
(***************************************************************************)
MaxPrim == 3

(***************************************************************************)
(* Tokens and lines.                                                       *)
(***************************************************************************)
Tok(ty, w, neg, n, fr, mk, ex) ==
    [ty |-> ty, w |-> w, neg |-> neg, n |-> n, fr |-> fr, mk |-> mk, ex |-> ex]

\* an integer literal, e.g. 12
I(n) == Tok("int", "", FALSE, n, <<>>, "", 0)
\* a floating literal without exponent part, e.g. 1.25 is F(1, <<2,5>>)
F(n, fr) == Tok("flt", "", FALSE, n, fr, "", 0)
\* a floating literal with exponent part, e.g. 1.5D+01 is FX(1, <<5>>, "D", 1)
FX(n, fr, mk, ex) == Tok("flt", "", FALSE, n, fr, mk, ex)
\* any other run of non-blank characters
W(w) == Tok("word", w, FALSE, 0, <<>>, "", 0)
\* the comment character and whatever follows it on the line
Bang == Tok("bang", "!", FALSE, 0, <<>>, "", 0)
Neg(t) == [t EXCEPT !.neg = TRUE]

Ln(toks) == [sep |-> " ", toks |-> toks]
LnC(toks) == [sep |-> ",", toks |-> toks]

IsFloat(t) == t.ty = "flt"
IsUInt(t) == t.ty = "int" /\ ~t.neg
IsInt(t) == t.ty = "int"
IsNum(t) == IsFloat(t) \/ IsInt(t)

\* the string '0.0' the Molpro readers pad with
ZeroStr == F(0, <<0>>)

(***************************************************************************)
(* Results of operations that may raise.                                   *)
(***************************************************************************)
Ok(v) == [st |-> "ok", v |-> v]
Raise(kind) == [st |-> kind, v |-> <<>>]
IsOk(r) == r.st = "ok"

(***************************************************************************)
(* Exact decimal arithmetic on literals: a value is m * 10^e.              *)
(***************************************************************************)
Min(a, b) == IF a < b THEN a ELSE b
Max(a, b) == IF a > b THEN a ELSE b
Abs(a) == IF a < 0 THEN -a ELSE a

RECURSIVE Pow10(_)
Pow10(k) == IF k <= 0 THEN 1 ELSE 10 * Pow10(k - 1)

RECURSIVE DigitsVal(_)
DigitsVal(ds) ==
    IF ds = <<>> THEN 0
    ELSE 10 * DigitsVal(SubSeq(ds, 1, Len(ds) - 1)) + ds[Len(ds)]

RECURSIVE DigitsOf(_)
DigitsOf(n) == IF n < 10 THEN <<n>> ELSE Append(DigitsOf(n \div 10), n % 10)

\* float(token): the value of a numeric literal
float(t) ==
    [m |-> (IF t.neg THEN -1 ELSE 1) * (t.n * Pow10(Len(t.fr)) + DigitsVal(t.fr)),
     e |-> t.ex - Len(t.fr)]

ValMul(a, b) == [m |-> a.m * b.m, e |-> a.e + b.e]

ValEq(a, b) ==
    LET e == Min(a.e, b.e)
    IN  a.m * Pow10(a.e - e) = b.m * Pow10(b.e - e)

NumEq(s, t) == ValEq(float(s), float(t))

One == [m |-> 1, e |-> 0]

\* int(x) of a float value: truncation towards zero
RECURSIVE IntOf(_)
IntOf(v) ==
    IF v.e >= 0 THEN v.m * Pow10(v.e)
    ELSE IF v.m >= 0 THEN IntOf([m |-> v.m \div 10, e |-> v.e + 1])
    ELSE -IntOf([m |-> (-v.m) \div 10, e |-> v.e + 1])

(***************************************************************************)
(* Python list slicing s[a:b].                                             *)
(***************************************************************************)
PyIdx(i, n) == IF i < 0 THEN Max(i + n, 0) ELSE Min(i, n)

PySlice(s, a, b) ==
    LET lo == PyIdx(a, Len(s))
        hi == PyIdx(b, Len(s))
    IN  IF lo >= hi THEN <<>> ELSE SubSeq(s, lo + 1, hi)

RECURSIVE Flatten(_)
Flatten(ss) == IF ss = <<>> THEN <<>> ELSE Head(ss) \o Flatten(Tail(ss))

Zeros(k) == [i \in 1..k |-> ZeroStr]

(***************************************************************************)
(* Line utilities (readers/helpers.py).                                    *)
(***************************************************************************)
RECURSIVE CutComment(_)
CutComment(toks) ==
    IF toks = <<>> THEN <<>>
    ELSE IF Head(toks).ty = "bang" THEN <<>>
    ELSE <<Head(toks)>> \o CutComment(Tail(toks))

\* prune_lines(lines, '!'): full-line and inline comments removed, blank
\* lines dropped, order kept
RECURSIVE prune_lines(_)
prune_lines(ls) ==
    IF ls = <<>> THEN <<>>
    ELSE LET t == CutComment(Head(ls).toks)
         IN  (IF t = <<>> THEN <<>> ELSE <<[Head(ls) EXCEPT !.toks = t]>>)
             \o prune_lines(Tail(ls))

\* the k-th smallest member of a set of indices
NthOf(S, k) == CHOOSE i \in S : Cardinality({j \in S : j < i}) = k - 1

\* partition_lines(lines, condition, min_size): contiguous blocks, each
\* beginning at a matching line; the first line must match and every block
\* must hold at least min_size lines.  The condition is given as the set of
\* the lines that match it.
partition_lines(ls, condition, min_size) ==
    IF ls = <<>> THEN Ok(<<>>)
    ELSE IF ls[1] \notin condition THEN Raise("FormatError")
    ELSE LET starts == {i \in 1..Len(ls) : ls[i] \in condition}
             nb == Cardinality(starts)
             blocks == [k \in 1..nb |->
                          SubSeq(ls, NthOf(starts, k),
                                 IF k = nb THEN Len(ls) ELSE NthOf(starts, k + 1) - 1)]
         IN  IF \E k \in 1..nb : Len(blocks[k]) < min_size
             THEN Raise("FormatError")
             ELSE Ok(blocks)

\* the Fortran D exponent marker read as E
replace_d(t) == IF t.mk = "D" THEN [t EXCEPT !.mk = "E"] ELSE t

\* parse_primitive_matrix(lines, nprim, ngen): nprim rows of one exponent and
\* ngen coefficients, returned as (exponents, coefficients by column)
parse_primitive_matrix(rows, nprim, ngen) ==
    IF Len(rows) < nprim THEN Raise("FormatError")
    ELSE IF \E r \in 1..nprim :
                \/ rows[r].sep # " "  /\ Len(rows[r].toks) > 1
                \/ Len(rows[r].toks) # ngen + 1
                \/ \E c \in 1..Len(rows[r].toks) : ~IsNum(rows[r].toks[c])
    THEN Raise("FormatError")
    ELSE Ok([exponents |-> [r \in 1..nprim |-> replace_d(rows[r].toks[1])],
             coefficients |-> [c \in 1..ngen |->
                                 [r \in 1..nprim |-> replace_d(rows[r].toks[c + 1])]]])

\* function_type_from_am(am, 'gto', 'spherical')
function_type_from_am(am, family, harmonic) ==
    IF \A i \in 1..Len(am) : am[i] < 2 THEN family
    ELSE IF family = "gto" /\ harmonic = "spherical" THEN "gto_spherical"
    ELSE "gto_cartesian"

(***************************************************************************)
(* The canonical object: a sequence of element entries in insertion order  *)
(* (a Python dict keyed by the atomic-number string).                      *)
(***************************************************************************)
NoElement(z) ==
    [z |-> z, has_es |-> FALSE, electron_shells |-> <<>>,
     has_ecp |-> FALSE, ecp_potentials |-> <<>>,
     has_ecp_electrons |-> FALSE, ecp_electrons |-> 0]

Shell(ft, am, exps, coefs) ==
    [function_type |-> ft, region |-> "", angular_momentum |-> am,
     exponents |-> exps, coefficients |-> coefs]

HasElement(bs, z) == \E i \in 1..Len(bs) : bs[i].z = z
ElementIdx(bs, z) == CHOOSE i \in 1..Len(bs) : bs[i].z = z

\* create_element_data(bs_data, element_Z, key): the element entry is made
\* when missing and given a fresh list under key; a key already there is an
\* error
create_element_data(bs, z, key) ==
    LET bs1 == IF HasElement(bs, z) THEN bs ELSE Append(bs, NoElement(z))
        i == ElementIdx(bs1, z)
    IN  IF key = "electron_shells"
        THEN IF bs1[i].has_es THEN Raise("FormatError")
             ELSE Ok([bs1 EXCEPT ![i].has_es = TRUE])
        ELSE IF bs1[i].has_ecp THEN Raise("FormatError")
             ELSE Ok([bs1 EXCEPT ![i].has_ecp = TRUE])

\* lut: element lookups
MaxZ == 118
lut_known_Z(z) == z >= 1 /\ z <= MaxZ

(***************************************************************************)
(* Crystal reader (readers/crystal.py).                                    *)
(***************************************************************************)
\* element_re: ^([\d]{1,3})\s+([\d]+)?$ on a stripped line
element_re_match(l) ==
    /\ l.sep = " "
    /\ Len(l.toks) = 2
    /\ IsUInt(l.toks[1]) /\ l.toks[1].n < 1000
    /\ IsUInt(l.toks[2])

\* shell_re: three integers and two numbers, each floating or integer
shell_re_match(l) ==
    /\ l.sep = " "
    /\ Len(l.toks) = 5
    /\ \A i \in 1..3 : IsUInt(l.toks[i])
    /\ \A i \in 4..5 : IsFloat(l.toks[i]) \/ IsUInt(l.toks[i])

\* ecp_re: a floating ZNUC and six integers
ecp_re_match(l) ==
    /\ l.sep = " "
    /\ Len(l.toks) = 7
    /\ IsFloat(l.toks[1])
    /\ \A i \in 2..7 : IsUInt(l.toks[i])

\* ecp_entry_re: two floating numbers and one digit
ecp_entry_re_match(l) ==
    /\ l.sep = " "
    /\ Len(l.toks) = 3
    /\ IsFloat(l.toks[1]) /\ IsFloat(l.toks[2])
    /\ IsUInt(l.toks[3]) /\ l.toks[3].n < 10

\* the lines of ls on which element_re.match, shell_re.match, ecp_re.match
\* succeed: the condition handed to partition_lines
element_re(ls) == {l \in {ls[i] : i \in 1..Len(ls)} : element_re_match(l)}
shell_re(ls) == {l \in {ls[i] : i \in 1..Len(ls)} : shell_re_match(l)}
ecp_re(ls) == {l \in {ls[i] : i \in 1..Len(ls)} : ecp_re_match(l)}

_get_element_ecp(bl) ==
    LET NAT == bl[1].toks[1].n
    IN  [element_Z |-> NAT % 100, ecp |-> (NAT > 200 /\ NAT <= 1000)]

\* digits kept after the decimal point by '{:.16E}'
FmtDigits == 16

RECURSIVE rstrip0(_)
rstrip0(ds) ==
    IF ds # <<>> /\ ds[Len(ds)] = 0 THEN rstrip0(SubSeq(ds, 1, Len(ds) - 1)) ELSE ds

\* scaled_exponent without "Trim useless zeroes"
scaled_exponent_untrimmed(ex, scaling_factor) ==
    LET v == ValMul(float(ex), scaling_factor)
        ds == DigitsOf(Abs(v.m))
        sci == IF v.m = 0 THEN 0 ELSE v.e + Len(ds) - 1
        mant == Tail(ds) \o [i \in 1..(FmtDigits - (Len(ds) - 1)) |-> 0]
    IN  Tok("flt", "", v.m < 0, ds[1], mant, "E", sci)

\* one pass of the loop that applies the scaling factor to an exponent
scaled_exponent(ex, scaling_factor) ==
    LET v == ValMul(float(ex), scaling_factor)
        ds == DigitsOf(Abs(v.m))
        sci == IF v.m = 0 THEN 0 ELSE v.e + Len(ds) - 1
        mant == Tail(ds) \o [i \in 1..(FmtDigits - (Len(ds) - 1)) |-> 0]
        trimmed == rstrip0(mant)
    IN  Tok("flt", "", v.m < 0, ds[1],
            IF trimmed = <<>> THEN <<0>> ELSE trimmed, "E", sci)

\* raw shell code -> angular momentum
crystal_shell_am(raw_shell_am) ==
    IF raw_shell_am = 0 THEN <<0>>
    ELSE IF raw_shell_am = 1 THEN <<0, 1>>
    ELSE <<raw_shell_am - 1>>

\* body of the loop over shell blocks
crystal_parse_shell(sh_lines) ==
    LET t == sh_lines[1].toks
        ityb == t[1].n
        shell_am == crystal_shell_am(t[2].n)
        nprim == t[3].n
        scaling_factor == ValMul(float(t[5]), float(t[5]))
        has_scaling == ~ValEq(scaling_factor, One)
        ngen == Len(shell_am)
        m == parse_primitive_matrix(PySlice(sh_lines, 1, nprim + 1), nprim, ngen)
    IN  IF ityb # 0 THEN Raise("AssertionError")
        ELSE IF ~IsOk(m) THEN m
        ELSE Ok(Shell(function_type_from_am(shell_am, "gto", "spherical"),
                      shell_am,
                      IF has_scaling
                      THEN [i \in 1..Len(m.v.exponents) |->
                              scaled_exponent(m.v.exponents[i], scaling_factor)]
                      ELSE m.v.exponents,
                      m.v.coefficients))

RECURSIVE crystal_shell_loop(_)
crystal_shell_loop(shell_blocks) ==
    IF shell_blocks = <<>> THEN Ok(<<>>)
    ELSE LET sh == crystal_parse_shell(Head(shell_blocks))
         IN  IF ~IsOk(sh) THEN sh
             ELSE LET rest == crystal_shell_loop(Tail(shell_blocks))
                  IN  IF ~IsOk(rest) THEN rest ELSE Ok(<<sh.v>> \o rest.v)

crystal_parse_electron_lines(bl, bs) ==
    LET element_Z == _get_element_ecp(bl).element_Z
        ced == create_element_data(bs, element_Z, "electron_shells")
        shell_blocks == partition_lines(Tail(bl), shell_re(Tail(bl)), 1)
        shells == crystal_shell_loop(shell_blocks.v)
    IN  IF ~lut_known_Z(element_Z) THEN Raise("LookupError")
        ELSE IF ~IsOk(ced) THEN ced
        ELSE IF ~IsOk(shell_blocks) THEN shell_blocks
        ELSE IF ~IsOk(shells) THEN shells
        ELSE Ok([ced.v EXCEPT ![ElementIdx(ced.v, element_Z)].electron_shells = shells.v])

\* first failure, if any, of the ECP record comprehension
RECURSIVE ecp_records_error(_, _, _)
ecp_records_error(ecp_lines, iline, n) ==
    IF iline >= n THEN "ok"
    ELSE IF 2 + iline + 1 > Len(ecp_lines) THEN "IndexError"
    ELSE IF ~ecp_entry_re_match(ecp_lines[2 + iline + 1]) THEN "FormatError"
    ELSE ecp_records_error(ecp_lines, iline + 1, n)

ecp_get_data(records) ==
    [r_exp |-> [i \in 1..Len(records) |-> records[i].toks[3].n],
     g_exp |-> [i \in 1..Len(records) |-> records[i].toks[1]],
     coeff |-> [i \in 1..Len(records) |-> records[i].toks[2]]]

RECURSIVE ecp_terms(_, _, _, _)
ecp_terms(M_arr, idx, offset, ecp_records) ==
    IF idx > Len(M_arr) THEN <<>>
    ELSE LET mdata == M_arr[idx]
         IN  IF mdata > 0
             THEN LET d == ecp_get_data(PySlice(ecp_records, offset, offset + mdata))
                  IN  <<[angular_momentum |->
                            IF idx = 1 THEN [k |-> "None", v |-> <<>>]
                            ELSE [k |-> "int", v |-> <<idx - 2>>],
                         ecp_type |-> "scalar_ecp",
                         r_exponents |-> d.r_exp,
                         gaussian_exponents |-> d.g_exp,
                         coefficients |-> [k |-> "flat", v |-> d.coeff]]>>
                      \o ecp_terms(M_arr, idx + 1, offset + mdata, ecp_records)
             ELSE ecp_terms(M_arr, idx + 1, offset, ecp_records)

_parse_ecp_block(bl, ecp_lines, bs) ==
    LET element_Z == _get_element_ecp(bl).element_Z
        ced == create_element_data(bs, element_Z, "ecp_potentials")
        h == ecp_lines[2].toks
        M_arr == [i \in 1..6 |-> h[i + 1].n]
        total == M_arr[1] + M_arr[2] + M_arr[3] + M_arr[4] + M_arr[5] + M_arr[6]
        rec_err == ecp_records_error(ecp_lines, 0, total)
        ecp_records == SubSeq(ecp_lines, 3, 2 + total)
        i == ElementIdx(ced.v, element_Z)
    IN  IF ~lut_known_Z(element_Z) THEN Raise("LookupError")
        ELSE IF ~IsOk(ced) THEN ced
        ELSE IF Len(ecp_lines) < 2 THEN Raise("IndexError")
        ELSE IF ~ecp_re_match(ecp_lines[2]) THEN Raise("FormatError")
        ELSE IF rec_err # "ok" THEN Raise(rec_err)
        ELSE Ok([ced.v EXCEPT
                   ![i].has_ecp_electrons = TRUE,
                   ![i].ecp_electrons = element_Z - IntOf(float(h[1])),
                   ![i].ecp_potentials = ecp_terms(M_arr, 1, 0, ecp_records)])

RECURSIVE ecp_block_loop(_, _, _)
ecp_block_loop(bl, element_sections, bs) ==
    IF element_sections = <<>> THEN Ok(bs)
    ELSE LET r == _parse_ecp_block(bl, Head(element_sections), bs)
         IN  IF ~IsOk(r) THEN r
             ELSE ecp_block_loop(bl, Tail(element_sections), r.v)

_parse_ecp_lines(bl, bs) ==
    LET element_sections == partition_lines(bl, ecp_re(bl), 1)
    IN  IF ~IsOk(element_sections) THEN element_sections
        ELSE ecp_block_loop(bl, element_sections.v, bs)

RECURSIVE crystal_element_loop(_, _)
crystal_element_loop(element_sections, bs) ==
    IF element_sections = <<>> THEN Ok(bs)
    ELSE LET es == Head(element_sections)
             r1 == crystal_parse_electron_lines(es, bs)
             r2 == IF _get_element_ecp(es).ecp THEN _parse_ecp_lines(es, r1.v) ELSE r1
         IN  IF ~IsOk(r1) THEN r1
             ELSE IF ~IsOk(r2) THEN r2
             ELSE crystal_element_loop(Tail(element_sections), r2.v)

MinElementLines == 3

read_crystal(lines) ==
    LET pruned == prune_lines(lines)
        element_sections == partition_lines(pruned, element_re(pruned), MinElementLines)
    IN  IF pruned = <<>> THEN Ok(<<>>)
        ELSE IF ~IsOk(element_sections) THEN element_sections
        ELSE crystal_element_loop(element_sections.v, <<>>)

(***************************************************************************)
(* lut: element symbols and angular-momentum letters.                      *)
(***************************************************************************)
ElementSyms == <<"H", "HE", "LI", "BE", "B", "C", "N", "O">>

lut_known_sym(sym) == \E z \in 1..Len(ElementSyms) : ElementSyms[z] = sym
element_Z_from_sym(sym) == CHOOSE z \in 1..Len(ElementSyms) : ElementSyms[z] = sym
element_sym_from_Z(z) == IF z <= Len(ElementSyms) THEN ElementSyms[z] ELSE "X"

AmChars == <<"s", "p", "d", "f", "g", "h", "i", "k">>

IsAmChar(t) == t.ty = "word" /\ \E i \in 1..Len(AmChars) : AmChars[i] = t.w
amchar_to_int(c) == <<(CHOOSE i \in 1..Len(AmChars) : AmChars[i] = c) - 1>>
amint_to_char(am) == AmChars[am[1] + 1]

\* \w+ : a word or a run of digits
IsWordChars(t) == t.ty = "word" \/ IsUInt(t)

\* start.end, matched by \d+.\d+
IsRange(t) == IsFloat(t) /\ ~t.neg /\ t.mk = "" /\ t.fr # <<>>
range_start(t) == t.n
range_end(t) == DigitsVal(t.fr)

append_shell(bs, z, shell) ==
    [bs EXCEPT ![ElementIdx(bs, z)].electron_shells = Append(@, shell)]

\* "if element_Z not in bs_data: create_element_data(...) else: bs_data[element_Z]"
element_data_for(bs, z) ==
    IF HasElement(bs, z) THEN Ok(bs) ELSE create_element_data(bs, z, "electron_shells")

(***************************************************************************)
(* Molpro system library reader (readers/libmol.py).                       *)
(***************************************************************************)
\* position of the colon that ends the aliases, 0 when the line is no shell entry
libmol_colon(l) ==
    LET n == Len(l.toks)
        ks == {k \in 4..(n - 3) :
                 /\ l.toks[k].ty = "word" /\ l.toks[k].w = ":"
                 /\ IsUInt(l.toks[k + 1]) /\ IsUInt(l.toks[k + 2])
                 /\ \A j \in (k + 3)..n : IsRange(l.toks[j])}
    IN  IF ks = {} THEN 0 ELSE CHOOSE k \in ks : TRUE

\* element_shell_re: element am (aliases) : nprim ncontr start1.end1 ...
libmol_element_shell_re_match(l) ==
    /\ l.sep = " "
    /\ Len(l.toks) >= 7
    /\ IsWordChars(l.toks[1])
    /\ IsAmChar(l.toks[2])
    /\ libmol_colon(l) # 0

\* entry_re: val1 val2 ... valn, each floating or integer
entry_re_match(l) ==
    /\ l.sep = " " \/ Len(l.toks) = 1
    /\ Len(l.toks) >= 1
    /\ \A i \in 1..Len(l.toks) : IsNum(l.toks[i])

\* "k if k.find('.')!=-1 else k+'.0'"
with_decimal_point(t) == IF IsFloat(t) THEN t ELSE [t EXCEPT !.ty = "flt", !.fr = <<0>>]

\* the loop "while nreadin < nread"
RECURSIVE libmol_read_data(_, _, _, _, _)
libmol_read_data(lines, iline, nreadin, nread, rawdata) ==
    IF ~(nreadin < nread) THEN Ok([iline |-> iline, rawdata |-> rawdata])
    ELSE IF iline + 1 >= Len(lines) THEN Raise("IndexError")
    ELSE IF ~entry_re_match(lines[iline + 2]) THEN Raise("FormatError")
    ELSE LET vals == lines[iline + 2].toks
             readval == [i \in 1..Len(vals) |-> with_decimal_point(vals[i])]
         IN  libmol_read_data(lines, iline + 1, nreadin + Len(readval), nread,
                              rawdata \o readval)

RECURSIVE SumRanges(_)
SumRanges(cranges) ==
    IF cranges = <<>> THEN 0
    ELSE (cranges[1][2] - cranges[1][1] + 1) + SumRanges(Tail(cranges))

\* pad_coefficients without the zeros after the last coefficient
pad_coefficients_leading_only(cc, start, end, nprim) ==
    IF start > 1 THEN Zeros(start - 1) \o cc ELSE cc

\* "Pad coefficients with zeros"
pad_coefficients(cc, start, end, nprim) ==
    LET lead == IF start > 1 THEN Zeros(start - 1) \o cc ELSE cc
    IN  IF end < nprim THEN lead \o Zeros(nprim - end) ELSE lead

\* the loop "for i in range(ncontr)"
RECURSIVE libmol_coefficients(_, _, _, _, _)
libmol_coefficients(rawdata, cranges, i, offset, nprim) ==
    IF i > Len(cranges) THEN <<>>
    ELSE LET start == cranges[i][1]
             end == cranges[i][2]
             nentries == end - start + 1
             cc == PySlice(rawdata, offset, offset + nentries)
         IN  <<pad_coefficients(cc, start, end, nprim)>>
             \o libmol_coefficients(rawdata, cranges, i + 1, offset + nentries, nprim)

\* the loop "while element_shell_re.match(basis_lines[iline])", iline 0-based
RECURSIVE libmol_shell_loop(_, _, _, _)
libmol_shell_loop(lines, iline, bs, func_type_global) ==
    IF iline >= Len(lines) THEN Raise("IndexError")
    ELSE IF ~libmol_element_shell_re_match(lines[iline + 1]) THEN Ok(bs)
    ELSE LET l == lines[iline + 1]
             k == libmol_colon(l)
             shell_am == amchar_to_int(l.toks[2].w)
             element_sym == l.toks[1]
             nprim == l.toks[k + 1].n
             ncontr == l.toks[k + 2].n
             rtoks == SubSeq(l.toks, k + 3, Len(l.toks))
             cranges == [i \in 1..Len(rtoks) |-> <<range_start(rtoks[i]), range_end(rtoks[i])>>]
             element_Z == element_Z_from_sym(element_sym.w)
             ed == element_data_for(bs, element_Z)
             nread == nprim + SumRanges(cranges)
             data == libmol_read_data(lines, iline + 1, 0, nread, <<>>)
             rawdata == data.v.rawdata
             exponents == PySlice(rawdata, 0, nprim)
             coefficients == libmol_coefficients(rawdata, cranges, 1, nprim, nprim)
             func_type == IF shell_am[1] < 2 THEN "gto" ELSE func_type_global
         IN  IF iline + 1 >= Len(lines) THEN Raise("IndexError")
             ELSE IF ~(nprim > 0) THEN Raise("AssertionError")
             ELSE IF ~(ncontr > 0) THEN Raise("AssertionError")
             ELSE IF Len(cranges) # ncontr THEN Raise("AssertionError")
             ELSE IF element_sym.ty # "word" \/ ~lut_known_sym(element_sym.w)
                  THEN Raise("LookupError")
             ELSE IF ~IsOk(ed) THEN ed
             ELSE IF ~IsOk(data) THEN data
             ELSE libmol_shell_loop(lines, data.v.iline,
                      append_shell(ed.v, element_Z,
                                   Shell(func_type, shell_am, exponents, coefficients)),
                      func_type_global)

libmol_parse_electron_lines(lines, bs, func_type_global) ==
    IF lines = <<>> THEN Raise("IndexError")
    ELSE IF ~libmol_element_shell_re_match(lines[1]) THEN Raise("AssertionError")
    ELSE libmol_shell_loop(lines, 0, bs, func_type_global)

\* str.lower on the words of the inputs
lower(w) ==
    IF w \in {"CARTESIAN", "Cartesian"} THEN "cartesian"
    ELSE IF w \in {"SPHERICAL", "Spherical"} THEN "spherical"
    ELSE w

\* line.strip().lower(), for a line that is one word; "" for any other line
strip_lower(l) ==
    IF Len(l.toks) = 1 /\ l.toks[1].ty = "word" THEN lower(l.toks[1].w) ELSE ""

\* the module-level _func_type, which no function of the module assigns
libmol_func_type == "gto_spherical"

\* read_libmol without the test for an empty file
read_libmol_unguarded(lines) ==
    libmol_parse_electron_lines(prune_lines(lines), <<>>, libmol_func_type)

read_libmol(lines) ==
    LET pruned == prune_lines(lines)
    IN  IF pruned = <<>> THEN Ok(<<>>)
        ELSE libmol_parse_electron_lines(pruned, <<>>, libmol_func_type)

(***************************************************************************)
(* Molpro user-input reader (readers/molpro.py).                           *)
(***************************************************************************)
\* element_shell_re: am,element,expn1,expn2,...
molpro_element_shell_re_match(l) ==
    /\ l.sep = ","
    /\ Len(l.toks) >= 3
    /\ IsAmChar(l.toks[1])
    /\ IsWordChars(l.toks[2])
    /\ \A i \in 3..Len(l.toks) : IsFloat(l.toks[i])

\* contraction_re: c,start.end,coeff1,coeff2,...
contraction_re_match(l) ==
    /\ l.sep = ","
    /\ Len(l.toks) >= 3
    /\ l.toks[1].ty = "word" /\ l.toks[1].w = "c"
    /\ IsRange(l.toks[2])
    /\ \A i \in 3..Len(l.toks) : IsFloat(l.toks[i])

\* the loop "while True" that reads the contractions of one shell
RECURSIVE molpro_contractions(_, _, _, _)
molpro_contractions(lines, iline, nprim, coefficients) ==
    IF iline + 1 >= Len(lines) THEN Raise("IndexError")
    ELSE IF ~contraction_re_match(lines[iline + 2])
         THEN Ok([iline |-> iline + 1, coefficients |-> coefficients])
    ELSE LET l == lines[iline + 2]
             start == range_start(l.toks[2])
             end == range_end(l.toks[2])
             cc == SubSeq(l.toks, 3, Len(l.toks))
             ncontr == end - start + 1
             padded == pad_coefficients(cc, start, end, nprim)
         IN  IF Len(cc) # ncontr THEN Raise("AssertionError")
             ELSE IF Len(padded) # nprim THEN Raise("AssertionError")
             ELSE molpro_contractions(lines, iline + 1, nprim, Append(coefficients, padded))

RECURSIVE molpro_shell_loop(_, _, _, _)
molpro_shell_loop(lines, iline, bs, func_type_global) ==
    IF iline >= Len(lines) THEN Raise("IndexError")
    ELSE IF ~molpro_element_shell_re_match(lines[iline + 1]) THEN Ok(bs)
    ELSE LET l == lines[iline + 1]
             shell_am == amchar_to_int(l.toks[1].w)
             element_sym == l.toks[2]
             exponents == SubSeq(l.toks, 3, Len(l.toks))
             nprim == Len(exponents)
             element_Z == element_Z_from_sym(element_sym.w)
             ed == element_data_for(bs, element_Z)
             contr == molpro_contractions(lines, iline, nprim, <<>>)
             func_type == IF shell_am[1] < 2 THEN "gto" ELSE func_type_global
         IN  IF ~(nprim > 0) THEN Raise("AssertionError")
             ELSE IF element_sym.ty # "word" \/ ~lut_known_sym(element_sym.w)
                  THEN Raise("LookupError")
             ELSE IF ~IsOk(ed) THEN ed
             ELSE IF ~IsOk(contr) THEN contr
             ELSE molpro_shell_loop(lines, contr.v.iline,
                      append_shell(ed.v, element_Z,
                                   Shell(func_type, shell_am, exponents,
                                         contr.v.coefficients)),
                      func_type_global)

molpro_parse_electron_lines(lines, bs, func_type_global) ==
    IF Len(lines) < 2 THEN Raise("IndexError")
    ELSE IF ~molpro_element_shell_re_match(lines[2]) THEN Raise("AssertionError")
    ELSE molpro_shell_loop(lines, 1, bs, func_type_global)

\* the module-level _func_type, which no function of the module assigns
molpro_func_type == "gto_spherical"

read_molpro(lines) ==
    LET pruned == prune_lines(lines)
    IN  IF pruned = <<>> THEN Ok(<<>>)
        ELSE molpro_parse_electron_lines(pruned, <<>>, molpro_func_type)

(***************************************************************************)
(* Normalization transforms the writers call (manip, sort).  A basis is    *)
(* [name, function_types, elements].                                       *)
(***************************************************************************)
RECURSIVE uncontract_general_shells(_)
uncontract_general_shells(shs) ==
    IF shs = <<>> THEN <<>>
    ELSE LET sh == Head(shs)
         IN  (IF Len(sh.coefficients) = 1 \/ Len(sh.angular_momentum) > 1
              THEN <<sh>>
              ELSE [c \in 1..Len(sh.coefficients) |->
                      [sh EXCEPT !.coefficients = <<sh.coefficients[c]>>]])
             \o uncontract_general_shells(Tail(shs))

MaxOfSeq(q) == CHOOSE x \in {q[i] : i \in 1..Len(q)} : \A i \in 1..Len(q) : q[i] <= x

RECURSIVE uncontract_spdf_shells(_, _)
uncontract_spdf_shells(shs, max_am) ==
    IF shs = <<>> THEN <<>>
    ELSE LET sh == Head(shs)
         IN  (IF Len(sh.angular_momentum) > 1 /\ MaxOfSeq(sh.angular_momentum) > max_am
              THEN [i \in 1..Len(sh.angular_momentum) |->
                      [sh EXCEPT !.angular_momentum = <<sh.angular_momentum[i]>>,
                                 !.coefficients = <<sh.coefficients[i]>>]]
              ELSE <<sh>>)
             \o uncontract_spdf_shells(Tail(shs), max_am)

\* shells of one angular momentum merged into one general contraction
RECURSIVE merge_columns(_, _, _)
merge_columns(shs, before, total) ==
    IF shs = <<>> THEN <<>>
    ELSE LET sh == Head(shs)
             np == Len(sh.exponents)
         IN  [c \in 1..Len(sh.coefficients) |->
                Zeros(before) \o sh.coefficients[c] \o Zeros(total - before - np)]
             \o merge_columns(Tail(shs), before + np, total)

SelectShells(shs, am) ==
    LET idx == {i \in 1..Len(shs) : shs[i].angular_momentum = am}
    IN  [k \in 1..Cardinality(idx) |-> shs[NthOf(idx, k)]]

make_general_shells(shs) ==
    LET split == uncontract_spdf_shells(shs, 0)
        ams == {split[i].angular_momentum[1] : i \in 1..Len(split)}
    IN  [k \in 1..Cardinality(ams) |->
           LET grp == SelectShells(split, <<NthOf(ams, k)>>)
               exps == Flatten([i \in 1..Len(grp) |-> grp[i].exponents])
           IN  Shell(grp[1].function_type, <<NthOf(ams, k)>>, exps,
                     merge_columns(grp, 0, Len(exps)))]

ShellKey(sh) ==
    2 * sh.angular_momentum[1] + (IF Len(sh.angular_momentum) > 1 THEN 1 ELSE 0)

RECURSIVE sort_shells(_)
sort_shells(shs) ==
    IF shs = <<>> THEN <<>>
    ELSE LET rest == sort_shells(Tail(shs))
             k == ShellKey(Head(shs))
             n == Cardinality({i \in 1..Len(rest) : ShellKey(rest[i]) < k})
         IN  SubSeq(rest, 1, n) \o <<Head(shs)>> \o SubSeq(rest, n + 1, Len(rest))

RECURSIVE sort_elements(_)
sort_elements(els) ==
    IF els = <<>> THEN <<>>
    ELSE LET rest == sort_elements(Tail(els))
             n == Cardinality({i \in 1..Len(rest) : rest[i].z < Head(els).z})
         IN  SubSeq(rest, 1, n) \o <<Head(els)>> \o SubSeq(rest, n + 1, Len(rest))

\* the basis with shs[i] as the electron shells of its i-th element
WithShells(b, shs) ==
    [b EXCEPT !.elements =
        [i \in 1..Len(b.elements) |-> [b.elements[i] EXCEPT !.electron_shells = shs[i]]]]

uncontract_general(b) ==
    WithShells(b, [i \in 1..Len(b.elements) |->
                      uncontract_general_shells(b.elements[i].electron_shells)])
uncontract_spdf(b, max_am) ==
    WithShells(b, [i \in 1..Len(b.elements) |->
                      uncontract_spdf_shells(b.elements[i].electron_shells, max_am)])
make_general(b) ==
    WithShells(b, [i \in 1..Len(b.elements) |->
                      make_general_shells(b.elements[i].electron_shells)])
sort_basis(b) ==
    [WithShells(b, [i \in 1..Len(b.elements) |->
                       sort_shells(b.elements[i].electron_shells)])
        EXCEPT !.elements = sort_elements(@)]

\* what write_crystal serializes
crystal_normalized(b) == sort_basis(uncontract_spdf(uncontract_general(b), 1))
\* what write_libmol serializes
libmol_normalized(b) == sort_basis(make_general(b))

(***************************************************************************)
(* Crystal writer (writers/crystal.py).                                    *)
(***************************************************************************)
\* printing.write_matrix(..., convert_exp=True): the exponent marker becomes D
convert_exp(t) == IF t.mk = "E" THEN [t EXCEPT !.mk = "D"] ELSE t

write_matrix(mat) ==
    [r \in 1..Len(mat[1]) |-> Ln([c \in 1..Len(mat) |-> convert_exp(mat[c][r])])]

\* last element Crystal accepts, and the largest projector it supports
MaxCrystalZ == 98
MaxEcpAm == 4
EcpOffset == 200

IntTok(n) == IF n < 0 THEN Neg(I(-n)) ELSE I(n)

ecp_term_rows(term) ==
    [i \in 1..Len(term.gaussian_exponents) |->
        Ln(<<term.gaussian_exponents[i], term.coefficients.v[1][i],
             IntTok(term.r_exponents[i])>>)]

\* the rows of the terms with this angular momentum ("for am in range(5)")
ecp_am_rows(pots, am) ==
    Flatten([k \in 1..Len(pots) |->
               IF pots[k].angular_momentum = [k |-> "list", v |-> <<am>>]
               THEN ecp_term_rows(pots[k]) ELSE <<>>])

crystal_write_ecp(data) ==
    LET pots == data.ecp_potentials
        Zeff == data.z - data.ecp_electrons
        ams == {pots[k].angular_momentum.v[1] : k \in 1..Len(pots)}
        max_ecp_am == CHOOSE a \in ams : \A x \in ams : x <= a
        rows == [am \in 0..MaxEcpAm |-> ecp_am_rows(pots, am)]
        M == 0
    IN  IF \E k \in 1..Len(pots) : pots[k].angular_momentum.k # "list"
        THEN Raise("TypeError")
        ELSE IF pots = <<>> THEN Raise("ValueError")
        ELSE IF max_ecp_am > MaxEcpAm THEN Raise("RuntimeError")
        ELSE Ok(<<Ln(<<W("INPUT")>>),
                  Ln(<<IntTok(Zeff), I(M)>> \o [i \in 1..(MaxEcpAm + 1) |-> I(Len(rows[i - 1]))])>>
                \o Flatten([i \in 1..(MaxEcpAm + 1) |-> rows[i - 1]]))

\* the shell type code without the offset of the shells above s
crystal_lat_no_offset(am) ==
    IF Len(am) = 2
    THEN IF am[1] # 0 \/ am[2] # 1 THEN Raise("RuntimeError") ELSE Ok(1)
    ELSE IF Len(am) = 1
    THEN Ok(am[1])
    ELSE Raise("RuntimeError")

\* shell type code
crystal_lat(am) ==
    IF Len(am) = 2
    THEN IF am[1] # 0 \/ am[2] # 1 THEN Raise("RuntimeError") ELSE Ok(1)
    ELSE IF Len(am) = 1
    THEN Ok(IF am[1] = 0 THEN 0 ELSE am[1] + 1)
    ELSE Raise("RuntimeError")

crystal_write_shell(shell) ==
    LET lat == crystal_lat(shell.angular_momentum)
        ityb == 0
        ng == Len(shell.exponents)
        che == 0
    IN  IF ~IsOk(lat) THEN lat
        ELSE Ok(<<Ln(<<I(ityb), I(lat.v), I(ng), I(che), F(1, <<0>>)>>)>>
                \o write_matrix(<<shell.exponents>> \o shell.coefficients))

RECURSIVE crystal_write_shells(_)
crystal_write_shells(shs) ==
    IF shs = <<>> THEN Ok(<<>>)
    ELSE LET a == crystal_write_shell(Head(shs))
             rest == crystal_write_shells(Tail(shs))
         IN  IF ~IsOk(a) THEN a
             ELSE IF ~IsOk(rest) THEN rest
             ELSE Ok(a.v \o rest.v)

\* body of the loop over the elements
crystal_write_element(data) ==
    LET nat == IF data.has_ecp THEN data.z + EcpOffset ELSE data.z
        ecp == IF data.has_ecp THEN crystal_write_ecp(data) ELSE Ok(<<>>)
        shs == IF data.has_es THEN crystal_write_shells(data.electron_shells) ELSE Ok(<<>>)
    IN  IF data.z > MaxCrystalZ THEN Ok(<<>>)
        ELSE IF ~data.has_es THEN Raise("KeyError")
        ELSE IF ~IsOk(ecp) THEN ecp
        ELSE IF ~IsOk(shs) THEN shs
        ELSE Ok(<<Ln(<<I(nat), I(Len(data.electron_shells))>>)>> \o ecp.v \o shs.v)

RECURSIVE crystal_write_elements(_)
crystal_write_elements(els) ==
    IF els = <<>> THEN Ok(<<>>)
    ELSE LET a == crystal_write_element(Head(els))
             rest == crystal_write_elements(Tail(els))
         IN  IF ~IsOk(a) THEN a
             ELSE IF ~IsOk(rest) THEN rest
             ELSE Ok(a.v \o rest.v)

write_crystal(b) ==
    LET body == crystal_write_elements(crystal_normalized(b).elements)
    IN  IF ~IsOk(body) THEN body
        ELSE Ok(body.v \o <<Ln(<<I(99), I(0)>>)>>)

(***************************************************************************)
(* Molpro system library writer (writers/libmol.py).                       *)
(***************************************************************************)
IsZeroTok(t) == float(t).m = 0

\* common.find_range: 0-based indices of the first and last non-zero entry
find_range(c) ==
    LET nz == {i \in 1..Len(c) : ~IsZeroTok(c[i])}
    IN  IF nz = {} THEN Raise("ValueError")
        ELSE Ok([first |-> NthOf(nz, 1) - 1, last |-> NthOf(nz, Cardinality(nz)) - 1])

\* entries per row of the data block
RowWidth == 5

\* common.reshape(print_data, 5)
RECURSIVE reshape(_, _)
reshape(data, w) ==
    IF data = <<>> THEN <<>>
    ELSE IF Len(data) <= w THEN <<data>>
    ELSE <<SubSeq(data, 1, w)>> \o reshape(SubSeq(data, w + 1, Len(data)), w)

libmol_write_shell(shell, z, name) ==
    LET exponents == shell.exponents
        coefficients == shell.coefficients
        nprim == Len(exponents)
        ncontr == Len(coefficients)
        fr == [c \in 1..ncontr |-> find_range(coefficients[c])]
        ranges == [c \in 1..ncontr |-> F(fr[c].v.first + 1, DigitsOf(fr[c].v.last + 1))]
        print_data == exponents \o
                      Flatten([c \in 1..ncontr |->
                                 PySlice(coefficients[c], fr[c].v.first, fr[c].v.last + 1)])
        rows == reshape(print_data, RowWidth)
    IN  IF \E c \in 1..ncontr : ~IsOk(fr[c]) THEN Raise("ValueError")
        ELSE Ok(<<Ln(<<W(element_sym_from_Z(z)), W(amint_to_char(shell.angular_momentum)),
                       W(name), W(":"), I(nprim), I(ncontr)>> \o ranges),
                  Ln(<<W("name"), W("contraction"), W("converted"), W("by"),
                       W("Basis"), W("Set"), W("Exchange")>>)>>
                \o [r \in 1..Len(rows) |-> Ln(rows[r])])

RECURSIVE libmol_write_shells(_, _, _)
libmol_write_shells(shs, z, name) ==
    IF shs = <<>> THEN Ok(<<>>)
    ELSE LET a == libmol_write_shell(Head(shs), z, name)
             rest == libmol_write_shells(Tail(shs), z, name)
         IN  IF ~IsOk(a) THEN a
             ELSE IF ~IsOk(rest) THEN rest
             ELSE Ok(a.v \o rest.v)

RECURSIVE libmol_write_elements(_, _)
libmol_write_elements(els, name) ==
    IF els = <<>> THEN Ok(<<>>)
    ELSE LET a == IF Head(els).has_es
                  THEN libmol_write_shells(Head(els).electron_shells, Head(els).z, name)
                  ELSE Ok(<<>>)
             rest == libmol_write_elements(Tail(els), name)
         IN  IF ~IsOk(a) THEN a
             ELSE IF ~IsOk(rest) THEN rest
             ELSE Ok(a.v \o rest.v)

write_libmol(b) ==
    LET nb == libmol_normalized(b)
        harm_type == IF "gto_cartesian" \in nb.function_types THEN "cartesian" ELSE "spherical"
        electron_elements == {i \in 1..Len(nb.elements) : nb.elements[i].has_es}
        body == libmol_write_elements(nb.elements, nb.name)
    IN  IF electron_elements = {} THEN Ok(<<Ln(<<W(harm_type)>>)>>)
        ELSE IF ~IsOk(body) THEN body
        ELSE Ok(<<Ln(<<W(harm_type)>>), Ln(<<W("basis={")>>)>> \o body.v)

(***************************************************************************)
(* The object a reader call hands to a writer: the reader's element map    *)
(* under 'elements', with the name and the function types of its shells.   *)
(***************************************************************************)
as_basis(name, bs) ==
    [name |-> name,
     function_types |-> UNION {{bs[i].electron_shells[j].function_type :
                                   j \in 1..Len(bs[i].electron_shells)} : i \in 1..Len(bs)},
     elements |-> bs]

(***************************************************************************)
(* Enumerated inputs: numeric literals.  Exponents and scale factors are   *)
(* dyadic, so that the double-precision products of the reader are exact.  *)
(***************************************************************************)
\* exponent of primitive r: plain decimal (mk = "") or with exponent part
ExpTok(r, mk) ==
    IF mk = "" THEN (IF r = 1 THEN F(1, <<0>>) ELSE F(r, <<5>>))
    ELSE FX(r, <<2, 5>>, mk, 1)

\* coefficient of primitive r in column c
CoefTok(r, c) == IF c = 2 THEN Neg(F(0, <<r, c>>)) ELSE F(0, <<r, c>>)

Markers == {"", "E", "D"}

ScaleToks == {F(1, <<0>>), I(1), Neg(F(1, <<0>>)), F(2, <<0>>), F(0, <<5>>), F(1, <<5>>), I(2)}

(***************************************************************************)
(* Enumerated inputs: basis objects given to the writers.                  *)
(***************************************************************************)
InShell(am, nprim, ncol, mk) ==
    Shell(IF am[Len(am)] < 2 THEN "gto" ELSE "gto_spherical", am,
          [r \in 1..nprim |-> ExpTok(r, mk)],
          [c \in 1..ncol |-> [r \in 1..nprim |-> CoefTok(r, c)]])

InShells ==
    {InShell(am, nprim, 1, mk) :
        am \in {<<0>>, <<1>>, <<2>>}, nprim \in 1..MaxPrim, mk \in {"", "E"}}
    \cup {InShell(<<0, 1>>, nprim, 2, "E") : nprim \in 1..MaxPrim}
    \cup {InShell(<<1>>, nprim, 2, "") : nprim \in 1..MaxPrim}

InEcpTerm(am, n) ==
    [angular_momentum |-> [k |-> "list", v |-> <<am>>],
     ecp_type |-> "scalar_ecp",
     r_exponents |-> [i \in 1..n |-> i],
     gaussian_exponents |-> [i \in 1..n |-> ExpTok(i, "E")],
     coefficients |-> [k |-> "nested", v |-> <<[i \in 1..n |-> CoefTok(i, 1)]>>]]

InEcps == {<<InEcpTerm(1, 1), InEcpTerm(0, 2)>>, <<InEcpTerm(2, 1)>>}

\* the local term of an ECP: angular momentum null, as read_crystal stores it
InLocalEcpTerm(n) == [InEcpTerm(0, n) EXCEPT !.angular_momentum = [k |-> "null", v |-> <<>>]]

\* ECPs with a local term, and ECPs with a term above g
InLocalEcps == {<<InLocalEcpTerm(1), InEcpTerm(0, 2)>>, <<InEcpTerm(1, 1), InLocalEcpTerm(2)>>}
InHighEcps == {<<InEcpTerm(MaxEcpAm + 1, 1)>>, <<InEcpTerm(0, 1), InEcpTerm(MaxEcpAm + 1, 2)>>,
               <<InEcpTerm(MaxEcpAm, 1)>>}

InElement(z, shells) ==
    [NoElement(z) EXCEPT !.has_es = TRUE, !.electron_shells = shells]

WithEcp(el, pots, nel) ==
    [el EXCEPT !.has_ecp = TRUE, !.ecp_potentials = pots,
               !.has_ecp_electrons = TRUE, !.ecp_electrons = nel]

InShellLists ==
    {<<s>> : s \in InShells}
    \cup {<<InShell(<<1>>, 1, 1, "E"), s>> : s \in InShells}

InElements ==
    {InElement(1, shs) : shs \in InShellLists}
    \cup {WithEcp(InElement(6, <<s>>), pots, 2) : s \in InShells, pots \in InEcps}

InBasis(els) ==
    [name |-> "bs",
     function_types |-> UNION {{els[i].electron_shells[j].function_type :
                                   j \in 1..Len(els[i].electron_shells)} : i \in 1..Len(els)},
     elements |-> els]

\* elements with a local ECP term, with a term above g, beyond the last
\* element of the Crystal format, and with an ECP and no electron shells
InEcpElements ==
    {WithEcp(InElement(z, <<InShell(<<0>>, 1, 1, "E")>>), pots, 2) :
        z \in {6, MaxCrystalZ + 1}, pots \in InLocalEcps \cup InHighEcps}
    \cup {WithEcp(NoElement(z), pots, 2) :
             z \in {6, MaxCrystalZ + 1}, pots \in InEcps \cup InHighEcps}
    \cup {InElement(MaxCrystalZ + 1, <<InShell(<<0>>, 1, 1, "E")>>)}

\* fused shells other than SP
InFusedShells ==
    {InShell(am, 1, Len(am), "E") :
        am \in {<<1, 0>>, <<1, 1>>, <<0, 2>>, <<0, 1, 1>>, <<0, 1, 2>>}}

InFusedElements ==
    {InElement(1, <<s>>) : s \in InFusedShells}
    \cup {InElement(1, <<InShell(<<am>>, 1, 1, "E")>>) : am \in 3..(MaxEcpAm + 1)}

BasisInputs ==
    {InBasis(<<e>>) : e \in InElements \cup InEcpElements \cup InFusedElements}
    \cup {InBasis(<<InElement(8, <<s>>), InElement(1, <<s>>)>>) : s \in InShells}

\* B is expressible in the Crystal format
CrystalExpressible(b) ==
    \A i \in 1..Len(b.elements) :
        /\ b.elements[i].z <= MaxCrystalZ
        /\ b.elements[i].has_es
        /\ \A j \in 1..Len(b.elements[i].electron_shells) :
              LET am == b.elements[i].electron_shells[j].angular_momentum
              IN  Len(am) = 1 \/ am = <<0, 1>>

\* B has only electron shells
ElectronOnly(b) ==
    \A i \in 1..Len(b.elements) : b.elements[i].has_es /\ ~b.elements[i].has_ecp

(***************************************************************************)
(* Enumerated inputs: Crystal text.                                        *)
(***************************************************************************)
CrHdr(nat, nsh) == Ln(<<I(nat), I(nsh)>>)
CrTerm == Ln(<<I(99), I(0)>>)
CommentLine == Ln(<<Bang, W("comment")>>)

\* a shell descriptor followed by nrows data rows of 1 + ngen + xcol entries
CrShellText(ityb, lat, ng, scal, nrows, xcol, mk) ==
    <<Ln(<<I(ityb), I(lat), I(ng), I(0), scal>>)>>
    \o [r \in 1..nrows |->
          Ln(<<ExpTok(r, mk)>>
             \o [c \in 1..((IF lat = 1 THEN 2 ELSE 1) + xcol) |-> CoefTok(r, c)])]

CrScaleTexts ==
    {<<CrHdr(1, 1)>> \o CrShellText(0, lat, ng, scal, ng, 0, mk) :
        lat \in {0, 1, 3}, ng \in 1..MaxPrim, scal \in ScaleToks, mk \in Markers}

CrRowTexts ==
    {<<CrHdr(1, 1)>> \o CrShellText(ityb, lat, ng, F(1, <<0>>), nrows, xcol, "E") \o term :
        ityb \in {0, 1}, lat \in {0, 1, 2}, ng \in 0..MaxPrim, nrows \in 0..(MaxPrim + 1),
        xcol \in {0, 1}, term \in {<<>>, <<CrTerm>>}}

CrTwoShellTexts ==
    {<<CrHdr(1, 2)>> \o CrShellText(0, 0, ng, F(1, <<0>>), n1, 0, "")
                     \o CrShellText(0, lat, 1, F(2, <<0>>), n2, 0, "D") :
        ng \in 1..MaxPrim, n1 \in 0..(MaxPrim + 1), lat \in {1, 2}, n2 \in 0..2}

CrTwoElementTexts ==
    {<<CrHdr(8, 1)>> \o CrShellText(0, 0, 1, F(1, <<0>>), 1, 0, "")
     \o <<CrHdr(nat, 1)>> \o CrShellText(0, 2, ng, F(1, <<0>>), ng, 0, "E") :
        nat \in {1, 8, 100, 108}, ng \in 1..MaxPrim}

EcpCounts == {<<1, 2, 0, 0, 0, 0>>, <<0, 1, 1, 0, 0, 0>>, <<0, 0, 0, 0, 0, 1>>}

SumSeq6(q) == q[1] + q[2] + q[3] + q[4] + q[5] + q[6]

\* the ECP lines of an element: optional INPUT, the header, nrows term rows
CrEcpText(input, znuc, counts, nrows) ==
    (IF input THEN <<Ln(<<W("INPUT")>>)>> ELSE <<>>)
    \o <<Ln(<<znuc>> \o [i \in 1..6 |-> I(counts[i])])>>
    \o [i \in 1..nrows |-> Ln(<<ExpTok(i, "E"), CoefTok(i, 1), I(i % 3)>>)]

CrEcpTexts ==
    {<<CrHdr(nat, 1)>>
     \o (IF first THEN CrEcpText(input, znuc, counts, SumSeq6(counts) + d) ELSE <<>>)
     \o CrShellText(0, 0, 1, F(1, <<0>>), 1, 0, "E")
     \o (IF first THEN <<>> ELSE CrEcpText(input, znuc, counts, SumSeq6(counts) + d)) :
        nat \in {206, 6}, first \in BOOLEAN, input \in BOOLEAN,
        znuc \in {F(4, <<0>>), I(4)}, counts \in EcpCounts, d \in {-1, 0, 1}}

CrCommentTexts ==
    {<<>>, <<CommentLine>>, <<CommentLine, Ln(<<>>), CommentLine>>, <<Ln(<<>>)>>,
     <<CommentLine, CrHdr(1, 1)>> \o CrShellText(0, 0, 1, F(1, <<0>>), 1, 0, "E"),
     <<CrHdr(1, 1), Ln(<<I(0), I(0), I(1), I(0), F(1, <<0>>), Bang, W("s")>>),
       CommentLine, Ln(<<ExpTok(1, "E"), CoefTok(1, 1), Bang>>)>>}

CrystalTexts ==
    CrScaleTexts \cup CrRowTexts \cup CrTwoShellTexts \cup CrTwoElementTexts
    \cup CrEcpTexts \cup CrCommentTexts

(***************************************************************************)
(* Enumerated inputs: Molpro-library text.                                 *)
(***************************************************************************)
RangeTok(r) == F(r[1], DigitsOf(r[2]))

\* start.end pairs, valid and invalid
Ranges == (0..(MaxPrim + 1)) \X (0..(MaxPrim + 1))
ValidRanges(nprim) == {r \in Ranges : 1 <= r[1] /\ r[1] <= r[2] /\ r[2] <= nprim}

\* the n values of a record: first the exponents, then the coefficients
LmValues(n, nprim, ints) ==
    [i \in 1..n |-> IF i <= nprim THEN ExpTok(i, "")
                    ELSE IF ints THEN I(i - nprim) ELSE CoefTok(i - nprim, 1)]

\* one record: shell entry, comment, data rows; extra values added or left out
LmRecord(sym, am, nprim, ncontr, ranges, extra, ints) ==
    LET nread == nprim + SumRanges(ranges)
        rows == reshape(LmValues(Max(nread + extra, 0), nprim, ints), RowWidth)
    IN  <<Ln(<<W(sym), W(am), W("lib"), W(":"), I(nprim), I(ncontr)>>
             \o [i \in 1..Len(ranges) |-> RangeTok(ranges[i])]),
          Ln(<<W("comment"), W("line")>>)>>
        \o [r \in 1..Len(rows) |-> Ln(rows[r])]

LmOneRangeTexts ==
    {LmRecord("H", am, nprim, 1, <<r>>, extra, FALSE) :
        am \in {"s", "d"}, nprim \in 1..MaxPrim, r \in Ranges, extra \in {-1, 0, 1}}

LmTwoRangeTexts ==
    {LmRecord("C", "p", nprim, 2, <<r1, r2>>, 0, ints) :
        nprim \in 1..MaxPrim, r1 \in Ranges, r2 \in ValidRanges(MaxPrim), ints \in BOOLEAN}

LmHeaderTexts ==
    {LmRecord(sym, "s", nprim, ncontr, <<<<1, 1>>>>, 0, FALSE) :
        sym \in {"H", "XX"}, nprim \in 0..1, ncontr \in 0..2}

LmTwoRecordTexts ==
    {pre \o LmRecord("H", "s", nprim, 1, <<<<1, nprim>>>>, 0, FALSE)
         \o LmRecord(sym, "d", 1, 1, <<<<1, 1>>>>, 0, FALSE) :
        pre \in {<<>>, <<Ln(<<W("spherical")>>)>>, <<Ln(<<W("cartesian")>>), Ln(<<W("basis={")>>)>>},
        nprim \in 1..MaxPrim, sym \in {"H", "O"}}

LmCommentTexts ==
    {<<>>, <<CommentLine>>, <<CommentLine, Ln(<<>>), CommentLine>>, <<Ln(<<>>)>>,
     <<CommentLine>> \o LmRecord("H", "s", 1, 1, <<<<1, 1>>>>, 0, FALSE),
     LmRecord("H", "s", 6, 1, <<<<3, 5>>>>, 0, FALSE)}

\* a d shell and a p shell followed by a line naming the harmonic type
LmHarmonicTexts ==
    {LmRecord("H", am, 1, 1, <<<<1, 1>>>>, 0, FALSE) \o <<Ln(<<W(kw)>>)>> :
        am \in {"p", "d"}, kw \in {"cartesian", "Cartesian", "spherical", "SPHERICAL"}}

LibmolTexts ==
    LmOneRangeTexts \cup LmTwoRangeTexts \cup LmHeaderTexts \cup LmTwoRecordTexts
    \cup LmCommentTexts \cup LmHarmonicTexts

(***************************************************************************)
(* Enumerated inputs: Molpro user-input text.                              *)
(***************************************************************************)
MpShellLine(am, sym, nprim) ==
    LnC(<<W(am), W(sym)>> \o [i \in 1..nprim |-> ExpTok(i, "")])

\* a contraction over range r with d coefficients more or fewer than declared
MpContrLine(r, d) ==
    LnC(<<W("c"), RangeTok(r)>>
        \o [i \in 1..Max(r[2] - r[1] + 1 + d, 1) |-> CoefTok(i, 1)])

MpOpen == Ln(<<W("basis={")>>)
MpClose == Ln(<<W("}")>>)

MpOneContrTexts ==
    {<<MpOpen, MpShellLine(am, "H", nprim), MpContrLine(r, d)>> \o close :
        am \in {"s", "d"}, nprim \in 1..MaxPrim, r \in Ranges, d \in {-1, 0, 1},
        close \in {<<MpClose>>}}

MpTwoContrTexts ==
    {<<MpOpen, MpShellLine("p", "C", nprim), MpContrLine(r1, 0), MpContrLine(r2, 0)>> \o close :
        nprim \in 1..MaxPrim, r1 \in ValidRanges(MaxPrim), r2 \in Ranges,
        close \in {<<>>, <<MpClose>>}}

MpTwoShellTexts ==
    {pre \o <<MpOpen, MpShellLine("s", "H", nprim), MpContrLine(<<1, nprim>>, 0),
              MpShellLine("d", sym, 1)>> \o contr \o <<MpClose>> \o post :
        pre \in {<<>>, <<Ln(<<W("cartesian")>>)>>}, post \in {<<>>, <<Ln(<<W("cartesian")>>)>>},
        nprim \in 1..MaxPrim, sym \in {"H", "O", "XX"},
        contr \in {<<>>, <<MpContrLine(<<1, 1>>, 0)>>}}

MpCommentTexts ==
    {<<>>, <<CommentLine>>, <<CommentLine, Ln(<<>>), CommentLine>>, <<Ln(<<>>)>>,
     <<MpOpen>>,
     <<CommentLine, MpOpen, MpShellLine("s", "H", 1), MpContrLine(<<1, 1>>, 0), MpClose>>,
     <<MpOpen, MpShellLine("s", "H", 6), MpContrLine(<<3, 5>>, 0), MpClose>>}

\* a p or d shell with the harmonic type named on the first line
MpHarmonicTexts ==
    {<<Ln(<<W(kw)>>), MpShellLine(am, "H", 1), MpContrLine(<<1, 1>>, 0), MpClose>> :
        am \in {"p", "d"}, kw \in {"cartesian", "CARTESIAN", "spherical", "Spherical"}}

MolproTexts ==
    MpOneContrTexts \cup MpTwoContrTexts \cup MpTwoShellTexts \cup MpCommentTexts
    \cup MpHarmonicTexts

(***************************************************************************)
(* The conversions as a state machine.  A run starts either from a basis   *)
(* object handed to a writer or from text handed to a reader; text a       *)
(* writer produced is read back, and an object a reader returned is        *)
(* written again.                                                          *)
(***************************************************************************)
NoBasis == [name |-> "", function_types |-> {}, elements |-> <<>>]

\* the module-level _func_type of readers/libmol.py and readers/molpro.py
ModuleFuncTypes == [libmol |-> libmol_func_type, molpro |-> molpro_func_type]

\* no merge_element_data call
NoMerge == [before |-> <<>>, dest |-> <<>>, sources |-> <<>>, ret |-> <<>>]

Init ==
    /\ err = "none"
    /\ bs_data = <<>>
    /\ rewritten = <<>>
    /\ module_func_type = ModuleFuncTypes
    /\ calls = <<>>
    /\ merge = NoMerge
    /\ \/ /\ pc = "basis"
          /\ fmt \in {"crystal", "libmol"}
          /\ basis \in BasisInputs
          /\ basis_lines = <<>>
       \/ /\ pc = "text"
          /\ basis = NoBasis
          /\ \/ fmt = "crystal" /\ basis_lines \in CrystalTexts
             \/ fmt = "libmol" /\ basis_lines \in LibmolTexts
             \/ fmt = "molpro" /\ basis_lines \in MolproTexts

\* the outcome of a writer call on the input object
Written(r) ==
    /\ pc' = IF IsOk(r) THEN "written" ELSE "failed"
    /\ err' = r.st
    /\ basis_lines' = r.v
    /\ UNCHANGED <<fmt, basis, bs_data, rewritten, module_func_type, calls, merge>>

WriteCrystal ==
    /\ pc = "basis"
    /\ fmt = "crystal"
    /\ Written(write_crystal(basis))

WriteLibmol ==
    /\ pc = "basis"
    /\ fmt = "libmol"
    /\ Written(write_libmol(basis))

\* the outcome of a reader call on the text
Parsed(r) ==
    /\ pc' = IF pc = "written" THEN "reread" ELSE "read"
    /\ err' = r.st
    /\ bs_data' = r.v
    /\ UNCHANGED <<fmt, basis, basis_lines, rewritten, module_func_type, calls, merge>>

ReadCrystal ==
    /\ pc \in {"text", "written"}
    /\ fmt = "crystal"
    /\ Parsed(read_crystal(basis_lines))

ReadLibmol ==
    /\ pc \in {"text", "written"}
    /\ fmt = "libmol"
    /\ Parsed(read_libmol(basis_lines))

ReadMolpro ==
    /\ pc \in {"text", "written"}
    /\ fmt = "molpro"
    /\ Parsed(read_molpro(basis_lines))

\* the outcome of a writer call on the object a reader returned
Rewritten(r) ==
    /\ pc' = "rewritten"
    /\ err' = r.st
    /\ rewritten' = r.v
    /\ UNCHANGED <<fmt, basis, basis_lines, bs_data, module_func_type, calls, merge>>

RewriteCrystal ==
    /\ pc \in {"read", "reread"}
    /\ err = "ok"
    /\ fmt = "crystal"
    /\ Rewritten(write_crystal(as_basis("bs", bs_data)))

RewriteLibmol ==
    /\ pc \in {"read", "reread"}
    /\ err = "ok"
    /\ fmt = "libmol"
    /\ Rewritten(write_libmol(as_basis("bs", bs_data)))

Next ==
    \/ WriteCrystal
    \/ WriteLibmol
    \/ ReadCrystal
    \/ ReadLibmol
    \/ ReadMolpro
    \/ RewriteCrystal
    \/ RewriteLibmol

Spec == Init /\ [][Next]_vars

(***************************************************************************)
(* Two reader calls running concurrently.  A call of read_libmol or        *)
(* read_molpro prunes its input, scans the pruned lines for the harmonic   *)
(* type one line at a time, and parses; the steps of the two calls         *)
(* interleave.  read_crystal touches no module-level name and is one step. *)
(***************************************************************************)
\* one pass of "for line in basis_lines": the module-level _func_type and
\* the local _func_type of the reader after the line
scan_line_global(module, local, line) ==
    [module |-> IF strip_lower(line) = "spherical" THEN "gto_spherical"
                ELSE IF strip_lower(line) = "cartesian" THEN "gto_cartesian"
                ELSE module,
     local |-> local]

scan_line(module, local, line) ==
    [module |-> module,
     local |-> IF strip_lower(line) = "spherical" THEN "gto_spherical"
               ELSE IF strip_lower(line) = "cartesian" THEN "gto_cartesian"
               ELSE local]

\* the rest of read_libmol / read_molpro after the scan, with the value the
\* module-level _func_type has when _parse_electron_lines reads it
parse_pruned(f, lines, func_type_global) ==
    IF lines = <<>> THEN Ok(<<>>)
    ELSE IF f = "libmol" THEN libmol_parse_electron_lines(lines, <<>>, func_type_global)
    ELSE molpro_parse_electron_lines(lines, <<>>, func_type_global)

\* a reader call on its own
read_alone(f, lines) ==
    IF f = "crystal" THEN read_crystal(lines)
    ELSE IF f = "libmol" THEN read_libmol(lines)
    ELSE read_molpro(lines)

NewCall(f, lines) ==
    [fmt |-> f, input |-> lines, at |-> "called", basis_lines |-> <<>>, iline |-> 0,
     local |-> "unbound", result |-> Raise("none")]

ConcInputs ==
    {NewCall("libmol", t) :
        t \in {LmRecord("H", "d", 1, 1, <<<<1, 1>>>>, 0, FALSE),
               LmRecord("H", "d", 1, 1, <<<<1, 1>>>>, 0, FALSE) \o <<Ln(<<W("cartesian")>>)>>,
               <<CommentLine>>}}
    \cup {NewCall("molpro", t) :
             t \in {<<MpOpen, MpShellLine("d", "O", 1), MpContrLine(<<1, 1>>, 0), MpClose>>,
                    <<Ln(<<W("Cartesian")>>), MpShellLine("d", "O", 1),
                      MpContrLine(<<1, 1>>, 0), MpClose>>}}
    \cup {NewCall("crystal", t) :
             t \in {<<CrHdr(1, 1)>> \o CrShellText(0, 3, 1, F(1, <<0>>), 1, 0, "E"),
                    <<CrHdr(1, 1)>> \o CrShellText(1, 3, 1, F(1, <<0>>), 1, 0, "E")}}

ConcInit ==
    /\ pc = "concurrent"
    /\ fmt = "none"
    /\ basis = NoBasis
    /\ basis_lines = <<>>
    /\ err = "none"
    /\ bs_data = <<>>
    /\ rewritten = <<>>
    /\ merge = NoMerge
    /\ module_func_type = ModuleFuncTypes
    /\ \E a \in ConcInputs, b \in ConcInputs : a # b /\ calls = <<a, b>>

ConcFrame == UNCHANGED <<pc, fmt, basis, basis_lines, err, bs_data, rewritten, merge>>

\* read_crystal, whole
CallReadCrystal(c) ==
    /\ calls[c].fmt = "crystal"
    /\ calls[c].at = "called"
    /\ calls' = [calls EXCEPT ![c].at = "returned", ![c].result = read_crystal(calls[c].input)]
    /\ UNCHANGED module_func_type
    /\ ConcFrame

\* "basis_lines = helpers.prune_lines(basis_lines, '!')"
CallPrune(c) ==
    /\ calls[c].fmt \in {"libmol", "molpro"}
    /\ calls[c].at = "called"
    /\ calls' = [calls EXCEPT ![c].at = "pruned", ![c].iline = 0,
                              ![c].basis_lines = prune_lines(calls[c].input)]
    /\ UNCHANGED module_func_type
    /\ ConcFrame

\* one pass of "for line in basis_lines"
CallScan(c) ==
    /\ calls[c].at = "pruned"
    /\ calls[c].iline < Len(calls[c].basis_lines)
    /\ LET r == scan_line(module_func_type[calls[c].fmt], calls[c].local,
                          calls[c].basis_lines[calls[c].iline + 1])
       IN  /\ calls' = [calls EXCEPT ![c].iline = @ + 1, ![c].local = r.local]
           /\ module_func_type' = [module_func_type EXCEPT ![calls[c].fmt] = r.module]
    /\ ConcFrame

\* the empty-file test, _parse_electron_lines and the return
CallParse(c) ==
    /\ calls[c].at = "pruned"
    /\ calls[c].iline = Len(calls[c].basis_lines)
    /\ calls' = [calls EXCEPT ![c].at = "returned",
                              ![c].result = parse_pruned(calls[c].fmt, calls[c].basis_lines,
                                                         module_func_type[calls[c].fmt])]
    /\ UNCHANGED module_func_type
    /\ ConcFrame

ConcNext ==
    \E c \in 1..2 :
        \/ CallReadCrystal(c)
        \/ CallPrune(c)
        \/ CallScan(c)
        \/ CallParse(c)

ConcSpec == ConcInit /\ [][ConcNext]_vars

(***************************************************************************)
(* bse/io.py: merge_element_data.  A mapping is a record of its keys'      *)
(* presence and values.  ret is a shallow copy of dest, so a list that     *)
(* dest holds is the same list object in ret: what extend() and sort() do  *)
(* to it through ret is done to the list dest holds.                       *)
(***************************************************************************)
Mapping(hs, shells, he, ecp, n, hr, refs) ==
    [has_shells |-> hs, elementElectronShells |-> shells,
     has_ecp |-> he, elementECP |-> ecp, elementECPElectrons |-> n,
     has_refs |-> hr, elementReferences |-> refs]

\* list.sort(key=lambda x: x['shellAngularMomentum']): stable
RECURSIVE insert_by_am(_, _)
insert_by_am(sorted, x) ==
    IF sorted = <<>> THEN <<x>>
    ELSE IF sorted[Len(sorted)].shellAngularMomentum <= x.shellAngularMomentum
         THEN Append(sorted, x)
    ELSE Append(insert_by_am(SubSeq(sorted, 1, Len(sorted) - 1), x), sorted[Len(sorted)])

RECURSIVE sort_by_am(_)
sort_by_am(l) ==
    IF l = <<>> THEN <<>>
    ELSE insert_by_am(sort_by_am(SubSeq(l, 1, Len(l) - 1)), l[Len(l)])

\* "ret = {k: v for k, v in dest.items()}": the lists of ret that are dest's own
merge_begin(dest) ==
    [st |-> "ok", ret |-> dest, dest |-> dest,
     shells_shared |-> dest.has_shells, refs_shared |-> dest.has_refs]

\* "if 'elementElectronShells' in s"
merge_shells(m, s) ==
    IF ~s.has_shells THEN m
    ELSE LET l == (IF m.ret.has_shells THEN m.ret.elementElectronShells ELSE <<>>)
                  \o s.elementElectronShells
         IN  [m EXCEPT !.ret.has_shells = TRUE, !.ret.elementElectronShells = l,
                       !.dest.elementElectronShells = IF m.shells_shared THEN l ELSE @]

\* "if 'elementECP' in s"
merge_ecp(m, s) ==
    IF ~s.has_ecp THEN m
    ELSE IF m.ret.has_ecp THEN [m EXCEPT !.st = "RuntimeError"]
    ELSE [m EXCEPT !.ret.has_ecp = TRUE, !.ret.elementECP = s.elementECP,
                   !.ret.elementECPElectrons = s.elementECPElectrons]

\* "if 'elementReferences' in s"
merge_references(m, s) ==
    IF ~s.has_refs THEN m
    ELSE LET l == (IF m.ret.has_refs THEN m.ret.elementReferences ELSE <<>>)
                  \o s.elementReferences
         IN  [m EXCEPT !.ret.has_refs = TRUE, !.ret.elementReferences = l,
                       !.dest.elementReferences = IF m.refs_shared THEN l ELSE @]

\* the body of "for s in sources"
merge_source(m, s) ==
    LET e == merge_ecp(merge_shells(m, s), s)
    IN  IF IsOk(e) THEN merge_references(e, s) ELSE e

RECURSIVE merge_sources(_, _)
merge_sources(m, sources) ==
    IF sources = <<>> \/ ~IsOk(m) THEN m
    ELSE merge_sources(merge_source(m, Head(sources)), Tail(sources))

\* "ret['elementElectronShells'].sort(...)"
merge_sort(m) ==
    IF ~IsOk(m) THEN m
    ELSE IF ~m.ret.has_shells THEN [m EXCEPT !.st = "KeyError"]
    ELSE LET l == sort_by_am(m.ret.elementElectronShells)
         IN  [m EXCEPT !.ret.elementElectronShells = l,
                       !.dest.elementElectronShells = IF m.shells_shared THEN l ELSE @]

\* the outcome, the returned mapping and the caller's dest after the call
merge_element_data(dest, sources) == merge_sort(merge_sources(merge_begin(dest), sources))

MgShell(am, id) == [shellAngularMomentum |-> am, id |-> id]

DestInputs ==
    {Mapping(hs, IF hs THEN sh ELSE <<>>, he, IF he THEN "ecp-d" ELSE "", IF he THEN 10 ELSE 0,
             hr, IF hr THEN <<"ref-d">> ELSE <<>>) :
        hs \in BOOLEAN, he \in BOOLEAN, hr \in BOOLEAN,
        sh \in {<<>>, <<MgShell(1, "d1")>>, <<MgShell(1, "d1"), MgShell(0, "d2")>>}}

SourceInputs(k) ==
    {Mapping(hs, IF hs THEN sh ELSE <<>>, he, IF he THEN k ELSE "", IF he THEN 28 ELSE 0,
             hr, IF hr THEN <<k>> ELSE <<>>) :
        hs \in BOOLEAN, he \in BOOLEAN, hr \in BOOLEAN,
        sh \in {<<MgShell(0, k)>>, <<MgShell(1, k), MgShell(0, k)>>}}

SourcesInputs ==
    {<<>>} \cup {<<a>> : a \in SourceInputs("s1")}
           \cup {<<a, b>> : a \in SourceInputs("s1"), b \in SourceInputs("s2")}

MergeInit ==
    /\ pc = "merge"
    /\ fmt = "none"
    /\ basis = NoBasis
    /\ basis_lines = <<>>
    /\ err = "none"
    /\ bs_data = <<>>
    /\ rewritten = <<>>
    /\ module_func_type = ModuleFuncTypes
    /\ calls = <<>>
    /\ \E d \in DestInputs, ss \in SourcesInputs :
          merge = [before |-> d, dest |-> d, sources |-> ss, ret |-> <<>>]

MergeFrame ==
    UNCHANGED <<fmt, basis, basis_lines, bs_data, rewritten, module_func_type, calls>>

\* a call that returns
MergeReturns ==
    /\ pc = "merge"
    /\ LET m == merge_element_data(merge.dest, merge.sources)
       IN  /\ IsOk(m)
           /\ merge' = [merge EXCEPT !.dest = m.dest, !.ret = m.ret]
    /\ pc' = "merged"
    /\ UNCHANGED err
    /\ MergeFrame

\* a call that raises
MergeRaises ==
    /\ pc = "merge"
    /\ LET m == merge_element_data(merge.dest, merge.sources)
       IN  /\ ~IsOk(m)
           /\ merge' = [merge EXCEPT !.dest = m.dest]
           /\ err' = m.st
    /\ pc' = "failed"
    /\ MergeFrame

MergeNext == MergeReturns \/ MergeRaises

MergeSpec == MergeInit /\ [][MergeNext]_vars

(***************************************************************************)
(* Properties.                                                             *)
(***************************************************************************)
Pruned == prune_lines(basis_lines)

\* every line is blank or starts with the comment character
AllComment(ls) == \A i \in 1..Len(ls) : ls[i].toks = <<>> \/ ls[i].toks[1].ty = "bang"

\* same angular momentum, and exponents and coefficients equal as numbers
ShellNumEq(a, b) ==
    /\ a.angular_momentum = b.angular_momentum
    /\ Len(a.exponents) = Len(b.exponents)
    /\ \A i \in 1..Len(a.exponents) : NumEq(a.exponents[i], b.exponents[i])
    /\ Len(a.coefficients) = Len(b.coefficients)
    /\ \A c \in 1..Len(a.coefficients) :
          /\ Len(a.coefficients[c]) = Len(b.coefficients[c])
          /\ \A r \in 1..Len(a.coefficients[c]) :
                NumEq(a.coefficients[c][r], b.coefficients[c][r])

\* same elements, and for each the same shells in the same order
SameShells(bs, els) ==
    /\ Len(bs) = Len(els)
    /\ \A i \in 1..Len(bs) :
          /\ bs[i].z = els[i].z
          /\ Len(bs[i].electron_shells) = Len(els[i].electron_shells)
          /\ \A j \in 1..Len(bs[i].electron_shells) :
                ShellNumEq(bs[i].electron_shells[j], els[i].electron_shells[j])

\* C1: reading the text write_crystal produced for an expressible basis
\* succeeds and returns the shells of the uncontracted, sorted basis
C1_CrystalRoundTrip ==
    (pc = "reread" /\ fmt = "crystal" /\ CrystalExpressible(basis)) =>
        /\ err = "ok"
        /\ SameShells(bs_data, crystal_normalized(basis).elements)

\* C2: reading the text write_libmol produced for a basis with only electron
\* shells succeeds and returns the shells of the generally-contracted, sorted
\* basis
C2_LibmolRoundTrip ==
    (pc = "reread" /\ fmt = "libmol" /\ ElectronOnly(basis)) =>
        /\ err = "ok"
        /\ SameShells(bs_data, libmol_normalized(basis).elements)

\* C3: writing what was read back from a writer's text reproduces that text
C3_Idempotence ==
    /\ (pc = "reread" /\ fmt = "crystal" /\ CrystalExpressible(basis)) =>
          /\ err = "ok"
          /\ write_crystal(as_basis(basis.name, bs_data)) = Ok(basis_lines)
    /\ (pc = "reread" /\ fmt = "libmol" /\ ElectronOnly(basis)) =>
          /\ err = "ok"
          /\ write_libmol(as_basis(basis.name, bs_data)) = Ok(basis_lines)

\* C4: a reader given no line, or only lines that comment pruning removes,
\* returns the empty object and raises nothing
C4_EmptyInput ==
    (pc = "read" /\ AllComment(basis_lines)) => (err = "ok" /\ bs_data = <<>>)

C4_Witness ==
    /\ pc = "read"
    /\ fmt = "libmol"
    /\ Len(basis_lines) >= 2
    /\ AllComment(basis_lines)
    /\ err = "ok"
    /\ bs_data = <<>>

\* an integer written with '.0' appended, any other literal as it stands
Decimal(t) == IF t.ty = "int" THEN [t EXCEPT !.ty = "flt", !.fr = <<0>>] ELSE t

PadZeros(k) == [i \in 1..k |-> F(0, <<0>>)]

RangeOfTok(t) == <<t.n, DigitsVal(t.fr)>>
RangeValid(r, nprim) == 1 <= r[1] /\ r[1] <= r[2] /\ r[2] <= nprim

\* the first record of a Molpro-library text: its ranges and its values
LmRanges ==
    LET h == Pruned[1].toks
        k == libmol_colon(Pruned[1])
    IN  [i \in 1..(Len(h) - k - 2) |-> RangeOfTok(h[k + 2 + i])]
LmNprim == Pruned[1].toks[libmol_colon(Pruned[1]) + 1].n
LmValuesRead ==
    Flatten([i \in 1..(Len(Pruned) - 2) |->
               [j \in 1..Len(Pruned[i + 2].toks) |-> Decimal(Pruned[i + 2].toks[j])]])
LmExpected(i) ==
    LET off == LmNprim + SumRanges(SubSeq(LmRanges, 1, i - 1))
        r == LmRanges[i]
    IN  PadZeros(r[1] - 1) \o SubSeq(LmValuesRead, off + 1, off + r[2] - r[1] + 1)
        \o PadZeros(LmNprim - r[2])

\* the first shell of a Molpro text and the contraction lines after it
MpNprim == Len(Pruned[2].toks) - 2
MpExpected(l) ==
    LET r == RangeOfTok(l.toks[2])
    IN  PadZeros(r[1] - 1) \o SubSeq(l.toks, 3, Len(l.toks)) \o PadZeros(MpNprim - r[2])

FirstShell == bs_data[1].electron_shells[1]

C6_ShellShape ==
    (pc \in {"read", "reread"} /\ err = "ok") =>
        \A e \in 1..Len(bs_data) :
            \A j \in 1..Len(bs_data[e].electron_shells) :
                LET sh == bs_data[e].electron_shells[j]
                IN  \A c \in 1..Len(sh.coefficients) :
                        Len(sh.coefficients[c]) = Len(sh.exponents)

\* the element blocks of a Crystal text and the shell blocks of the k-th
CrElementBlocks == partition_lines(Pruned, element_re(Pruned), MinElementLines)
CrShellBlocks(k) == partition_lines(Tail(CrElementBlocks.v[k]), shell_re(Tail(CrElementBlocks.v[k])), 1)

\* a literal with the marker D written as E
MarkerE(t) == [t EXCEPT !.mk = IF @ = "D" THEN "E" ELSE @]

\* the stored exponent st is the source exponent src times the square of s,
\* in scientific notation with one or more fraction digits and no trailing zero
ScaledAs(st, src, s) ==
    /\ st.mk = "E"
    /\ st.n < 10
    /\ Len(st.fr) >= 1
    /\ Len(st.fr) > 1 => st.fr[Len(st.fr)] # 0
    /\ ValEq(float(st), ValMul(float(src), ValMul(float(s), float(s))))

SquareIsOne(s) == ValEq(ValMul(float(s), float(s)), One)

\* every stored exponent of a Crystal text that was read, with its source
\* row and the scale factor of its shell descriptor
CrExponents ==
    UNION {UNION {LET blk == CrShellBlocks(k).v[j]
                      sh == bs_data[k].electron_shells[j]
                  IN  {<<sh.exponents[i], blk[i + 1].toks[1], blk[1].toks[5]>> :
                          i \in 1..Len(sh.exponents)} :
                  j \in 1..Len(bs_data[k].electron_shells)} :
           k \in 1..Len(bs_data)}

C7_OriginalRule(st, src, s) == IF SquareIsOne(s) THEN st = src ELSE ScaledAs(st, src, s)
C7_AmendedRule(st, src, s) ==
    IF SquareIsOne(s) THEN st = MarkerE(src) ELSE ScaledAs(st, src, s)

\* C7 as stated: scaled exponents are source times s squared, trimmed; with
\* s squared equal to 1 the stored exponent is the unchanged source text
C7_ScaleFactorOriginal ==
    (pc = "read" /\ fmt = "crystal" /\ err = "ok") => 
        \A x \in CrExponents : C7_OriginalRule(x[1], x[2], x[3])

\* C7 as amended: scaled exponents are source times s squared, trimmed; with
\* s squared equal to 1 the stored exponent is the source text with the
\* exponent marker D written as E
C7_ScaleFactor ==
    (pc = "read" /\ fmt = "crystal" /\ err = "ok") => 
        \A x \in CrExponents : C7_AmendedRule(x[1], x[2], x[3])

\* exponent 1.0 under scale factor 2.0 stored as 4.0E+00
C7_Witness ==
    /\ pc = "read"
    /\ fmt = "crystal"
    /\ err = "ok"
    /\ Pruned # <<>>
    /\ Pruned[2].toks[5] = F(2, <<0>>)
    /\ Pruned[3].toks[1] = F(1, <<0>>)
    /\ FirstShell.exponents[1] = FX(4, <<0>>, "E", 0)

\* a Crystal shell descriptor whose basis-type code is 1 or 2
HasUnsupportedItyb(ls) ==
    \E i \in 1..Len(ls) : shell_re_match(ls[i]) /\ ls[i].toks[1].n \in {1, 2}

\* a Molpro-library shell entry whose number of ranges differs from ncontr
RangeCountMismatch(ls) ==
    /\ ls # <<>>
    /\ libmol_element_shell_re_match(ls[1])
    /\ Len(ls[1].toks) - libmol_colon(ls[1]) - 2 # ls[1].toks[libmol_colon(ls[1]) + 2].n

\* C8: a shell header with an unsupported code, or a libmol header whose
\* number of ranges differs from ncontr, makes the reader raise FormatError
C8_MalformedRejected ==
    pc = "read" =>
        /\ (fmt = "crystal" /\ HasUnsupportedItyb(Pruned)) => err = "FormatError"
        /\ (fmt = "libmol" /\ RangeCountMismatch(Pruned)) => err = "FormatError"

\* some shell descriptor is followed by a number of data rows other than nprim
RowCountMismatch ==
    /\ IsOk(CrElementBlocks)
    /\ \A k \in 1..Len(CrElementBlocks.v) : IsOk(CrShellBlocks(k))
    /\ \E k \in 1..Len(CrElementBlocks.v) :
          \E j \in 1..Len(CrShellBlocks(k).v) :
              Len(CrShellBlocks(k).v[j]) - 1 # CrShellBlocks(k).v[j][1].toks[3].n

\* C9: read_crystal raises whenever the rows after a shell descriptor are
\* fewer or more than the nprim it declares
C9_RowCountEnforced ==
    (pc = "read" /\ fmt = "crystal" /\ Pruned # <<>> /\ RowCountMismatch) => err # "ok"

\* an element block with NAT = Z + 200 holding an ECP header that is followed
\* by as many term rows as its six counts add up to
EcpHeaderAt(ls, h) ==
    /\ ecp_re_match(ls[h])
    /\ LET n == SumSeq6([i \in 1..6 |-> ls[h].toks[i + 1].n])
       IN  /\ h + n <= Len(ls)
           /\ \A i \in 1..n : ecp_entry_re_match(ls[h + i])
           /\ h + n < Len(ls) => ~ecp_entry_re_match(ls[h + n + 1])

WellFormedEcpElement(ls) ==
    /\ ls # <<>>
    /\ element_re_match(ls[1])
    /\ ls[1].toks[1].n > EcpOffset /\ ls[1].toks[1].n <= EcpOffset + MaxCrystalZ
    /\ \A i \in 2..Len(ls) : ~element_re_match(ls[i])
    /\ \E h \in 2..Len(ls) : EcpHeaderAt(ls, h)

EcpHeaderOf(ls) == ls[CHOOSE h \in 2..Len(ls) : EcpHeaderAt(ls, h)]

NonZeroCounts(h) == Cardinality({i \in 1..6 : h.toks[i + 1].n > 0})

\* C10: read_crystal returns for such a block an element with ecp_electrons
\* = Z - Z_effective, one ECP term per non-zero count and its electron shells
C10_CrystalEcpRead ==
    (pc = "read" /\ fmt = "crystal" /\ WellFormedEcpElement(Pruned)) =>
        /\ err = "ok"
        /\ Len(bs_data) = 1
        /\ bs_data[1].has_ecp_electrons
        /\ bs_data[1].ecp_electrons =
              Pruned[1].toks[1].n - EcpOffset - IntOf(float(EcpHeaderOf(Pruned).toks[1]))
        /\ Len(bs_data[1].ecp_potentials) = NonZeroCounts(EcpHeaderOf(Pruned))
        /\ bs_data[1].electron_shells # <<>>

\* the rows of the ECP terms of each bucket: the local term (M), then the
\* terms of angular momentum 0..4 (M0..M4)
EcpBucketCounts(pots) ==
    <<SumSeq6([k \in 1..6 |->
                 IF k <= Len(pots) /\ pots[k].angular_momentum.k = "null"
                 THEN Len(pots[k].gaussian_exponents) ELSE 0])>>
    \o [am1 \in 1..5 |->
          SumSeq6([k \in 1..6 |->
                     IF k <= Len(pots) /\ pots[k].angular_momentum = [k |-> "list", v |-> <<am1 - 1>>]
                     THEN Len(pots[k].gaussian_exponents) ELSE 0])]

\* every term of the ECP is the local term or has angular momentum up to g
EcpWithinG(pots) ==
    \A k \in 1..Len(pots) :
        \/ pots[k].angular_momentum.k = "null"
        \/ pots[k].angular_momentum.v[1] <= MaxEcpAm

\* line h of the text is an ECP header with these counts, followed by as many
\* ECP rows as the counts add up to and then by no further ECP row
EcpBlockAt(ls, h, zeff, counts) ==
    /\ Len(ls[h].toks) = 7
    /\ NumEq(ls[h].toks[1], IntTok(zeff))
    /\ \A i \in 1..6 : ls[h].toks[i + 1] = I(counts[i])
    /\ h + SumSeq6(counts) <= Len(ls)
    /\ \A i \in 1..SumSeq6(counts) :
          Len(ls[h + i].toks) = 3 /\ ls[h + i].toks[3].ty = "int"
    /\ h + SumSeq6(counts) < Len(ls) => Len(ls[h + SumSeq6(counts) + 1].toks) # 3

\* the one element of a basis given to write_crystal
TheElement == basis.elements[1]

CrystalWriteDone == pc \in {"written", "failed"} /\ fmt = "crystal"

\* C11: for an element whose ECP terms fall into the buckets (M, M0..M4),
\* write_crystal emits an ECP header with Z_effective and those six counts in
\* that order, followed by as many term rows as their sum
C11_EcpBuckets ==
    (/\ CrystalWriteDone
     /\ Len(basis.elements) = 1
     /\ TheElement.has_ecp /\ TheElement.has_es /\ TheElement.z <= MaxCrystalZ
     /\ EcpWithinG(TheElement.ecp_potentials)) =>
        /\ err = "ok"
        /\ \E h \in 1..Len(basis_lines) :
              EcpBlockAt(basis_lines, h, TheElement.z - TheElement.ecp_electrons,
                         EcpBucketCounts(TheElement.ecp_potentials))

\* some ECP term of the element has angular momentum above g
EcpAboveG(el) ==
    /\ el.has_ecp
    /\ \E k \in 1..Len(el.ecp_potentials) :
          /\ el.ecp_potentials[k].angular_momentum.k = "list"
          /\ el.ecp_potentials[k].angular_momentum.v[1] > MaxEcpAm

\* C12: write_crystal fails, and returns no text, whenever the ECP of an
\* element holds a term of angular momentum above g
C12_EcpAboveGFails ==
    (CrystalWriteDone /\ \E i \in 1..Len(basis.elements) : EcpAboveG(basis.elements[i])) =>
        (err # "ok" /\ basis_lines = <<>>)

\* a line of an ECP block: 'INPUT', an ECP header, an ECP row
IsEcpLine(l) ==
    \/ l.toks = <<W("INPUT")>>
    \/ Len(l.toks) = 7
    \/ Len(l.toks) = 3 /\ l.toks[3].ty = "int"

\* a shell descriptor or a row of primitives
IsShellLine(l) ==
    \/ Len(l.toks) = 5
    \/ Len(l.toks) \in {2, 3} /\ l.toks[1].ty = "flt"

\* C13: for an element without ECP the text holds no line of an ECP block; for
\* an element with an ECP and no electron shells write_crystal succeeds and
\* the text holds no shell descriptor and no row of primitives
C13_OptionalBlocks ==
    CrystalWriteDone =>
        /\ ((\A i \in 1..Len(basis.elements) : ~basis.elements[i].has_ecp) /\ err = "ok") =>
              \A i \in 1..Len(basis_lines) : ~IsEcpLine(basis_lines[i])
        /\ (/\ Len(basis.elements) = 1
            /\ TheElement.has_ecp /\ ~TheElement.has_es /\ TheElement.z <= MaxCrystalZ
            /\ EcpWithinG(TheElement.ecp_potentials)) =>
              /\ err = "ok"
              /\ \A i \in 1..Len(basis_lines) : ~IsShellLine(basis_lines[i])

\* the shell entry of a Molpro-library record: its nprim, ncontr and ranges
LmHeaderNprim(l) == l.toks[libmol_colon(l) + 1].n
LmHeaderNcontr(l) == l.toks[libmol_colon(l) + 2].n
LmHeaderRanges(l) ==
    [i \in 1..(Len(l.toks) - libmol_colon(l) - 2) |->
        RangeOfTok(l.toks[libmol_colon(l) + 2 + i])]

\* the number of values on the lines a..b of a text
RECURSIVE ValuesOn(_, _, _)
ValuesOn(ls, a, b) == IF a > b THEN 0 ELSE Len(ls[a].toks) + ValuesOn(ls, a + 1, b)

\* the number of well-formed records (shell entry of a known element with
\* valid ranges, comment line, rows holding nprim values and the values of
\* each range) a text is made of; -1 when it is not made of such records
RECURSIVE LmRecords(_)
LmRecords(ls) ==
    IF ls = <<>> THEN 0
    ELSE IF Len(ls) < 3 \/ ~libmol_element_shell_re_match(ls[1]) THEN -1
    ELSE LET h == ls[1]
             nprim == LmHeaderNprim(h)
             ranges == LmHeaderRanges(h)
             nread == nprim + SumRanges(ranges)
             ms == {m \in 1..(Len(ls) - 2) :
                      /\ \A i \in 3..(2 + m) : entry_re_match(ls[i])
                      /\ ValuesOn(ls, 3, 2 + m) = nread}
         IN  IF \/ nprim < 1
                \/ Len(ranges) # LmHeaderNcontr(h)
                \/ \E i \in 1..Len(ranges) : ~RangeValid(ranges[i], nprim)
                \/ ~lut_known_sym(h.toks[1].w)
                \/ libmol_element_shell_re_match(ls[2])
                \/ ms = {}
             THEN -1
             ELSE LET m == CHOOSE x \in ms : TRUE
                      rest == LmRecords(SubSeq(ls, 3 + m, Len(ls)))
                  IN  IF rest < 0 THEN -1 ELSE 1 + rest

\* the number of shells of an object
RECURSIVE ShellCount(_)
ShellCount(bs) ==
    IF bs = <<>> THEN 0 ELSE Len(Head(bs).electron_shells) + ShellCount(Tail(bs))

\* C15: for a text made of k well-formed records read_libmol returns an
\* object holding k shells
C15_OneShellPerRecord ==
    (pc = "read" /\ fmt = "libmol" /\ LmRecords(Pruned) >= 1) =>
        (err = "ok" /\ ShellCount(bs_data) = LmRecords(Pruned))

\* the harmonic types the lines of a text name
HarmonicKeywords(ls) == {strip_lower(ls[i]) : i \in 1..Len(ls)} \cap {"cartesian", "spherical"}

\* C16: in an object read_libmol or read_molpro returns, a shell of angular
\* momentum below 2 is 'gto'; a shell of angular momentum 2 or more is
\* 'gto_cartesian' when the text holds a line 'cartesian' and 'gto_spherical'
\* when it holds 'spherical' or neither
C16_HarmonicType ==
    (pc = "read" /\ fmt \in {"libmol", "molpro"} /\ err = "ok"
        /\ HarmonicKeywords(Pruned) # {"cartesian", "spherical"}) =>
        \A e \in 1..Len(bs_data) :
            \A j \in 1..Len(bs_data[e].electron_shells) :
                LET sh == bs_data[e].electron_shells[j]
                IN  sh.function_type =
                        IF sh.angular_momentum[1] < 2 THEN "gto"
                        ELSE IF "cartesian" \in HarmonicKeywords(Pruned) THEN "gto_cartesian"
                        ELSE "gto_spherical"

\* the angular momentum a raw Crystal shell code stands for
AmOfCode(r) == IF r = 0 THEN <<0>> ELSE IF r = 1 THEN <<0, 1>> ELSE <<r - 1>>

\* the shell descriptors of a Crystal text, in order
ShellDescriptors(ls) == LET five(l) == Len(l.toks) = 5 IN SelectSeq(ls, five)

\* the shells write_crystal encodes for the one element of the basis
EncodedShells == crystal_normalized(basis).elements[1].electron_shells

IsFusedOther(am) == Len(am) >= 2 /\ am # <<0, 1>>

OneElectronElement ==
    /\ Len(basis.elements) = 1
    /\ TheElement.has_es /\ ~TheElement.has_ecp /\ TheElement.z <= MaxCrystalZ

C14_Independence ==
    /\ module_func_type = ModuleFuncTypes
    /\ \A c \in 1..Len(calls) :
          calls[c].at = "returned" =>
              calls[c].result = read_alone(calls[c].fmt, calls[c].input)

\* a call has returned a d shell while the other call, which has scanned a
\* 'cartesian' line, has not yet parsed
C14_Witness ==
    \E c \in 1..Len(calls), d \in 1..Len(calls) :
        /\ c # d
        /\ calls[d].at = "pruned" /\ calls[d].local = "gto_cartesian"
        /\ calls[c].fmt = calls[d].fmt
        /\ calls[c].at = "returned" /\ IsOk(calls[c].result)
        /\ calls[c].result.v # <<>>
        /\ calls[c].result.v[1].electron_shells[1].angular_momentum = <<2>>
        /\ calls[c].result.v[1].electron_shells[1].function_type = "gto_spherical"

RECURSIVE AllShells(_)
AllShells(sources) ==
    IF sources = <<>> THEN <<>>
    ELSE (IF Head(sources).has_shells THEN Head(sources).elementElectronShells ELSE <<>>)
         \o AllShells(Tail(sources))

EcpCarriers == {i \in 0..Len(merge.sources) :
                   IF i = 0 THEN merge.before.has_ecp ELSE merge.sources[i].has_ecp}

CarrierOf(i) == IF i = 0 THEN merge.before ELSE merge.sources[i]

\* C18: merge_element_data raises RuntimeError whenever more than one of dest
\* and the sources carries elementECP; otherwise it returns a mapping with the
\* ECP of the single carrier (if any) and dest's shells followed by every
\* source's shells, stably sorted by shellAngularMomentum, and the dest
\* mapping passed in, its shell and reference lists included, is unchanged
C18_MergeElementData ==
    pc \in {"merged", "failed"} =>
        IF Cardinality(EcpCarriers) > 1
        THEN pc = "failed" /\ err = "RuntimeError"
        ELSE /\ pc = "merged"
             /\ \A i \in EcpCarriers :
                   /\ merge.ret.has_ecp
                   /\ merge.ret.elementECP = CarrierOf(i).elementECP
                   /\ merge.ret.elementECPElectrons = CarrierOf(i).elementECPElectrons
             /\ EcpCarriers = {} => ~merge.ret.has_ecp
             /\ merge.ret.elementElectronShells =
                    sort_by_am((IF merge.before.has_shells
                                THEN merge.before.elementElectronShells ELSE <<>>)
                               \o AllShells(merge.sources))
             /\ merge.dest = merge.before

====
